---- MODULE Spec2Model ----
(***************************************************************************)
(* The offline-first synchronisation engine of VidyaLehar: the local       *)
(* replica (Dexie tables courses, studentProgress, profiles, videos,       *)
(* syncQueue), the domain writes of offlineContentService, the uplink      *)
(* replay (processSyncQueue), the downlink reconciliation (syncDown) and   *)
(* the mediator in App.tsx (handleLogin, handleOnline).                    *)
(*                                                                         *)
(* Ids: `course_${Date.now()}` and `lesson_${Date.now()}` are modelled by  *)
(* the clock value itself, so two creations in the same millisecond get    *)
(* the same id, as in the code.  A course carries id, title, authorId and  *)
(* lessons; description, icon and forClass are copied wherever title is    *)
(* and are represented by it.  A lesson carries id, title, videoUrl and    *)
(* hasOfflineVideo; content, summary, quiz, transcript and difficulty are  *)
(* represented by title.  Scores are exact rationals <<num, den>>.         *)
(***************************************************************************)
EXTENDS Integers, Sequences, FiniteSets, TLC

\* ---- bounds of the model ----
MaxClock == 2
MaxWrites == 2
MaxFailures == 1
MaxTriggers == 2
DayTicks == 2

\* ---- input domains ----
Students == {1, 2}
Titles == {"A", "B"}
Scores == {0, 60, 80}
Author == "teacher"

\* what the lesson editor hands to saveLesson: the lesson fields and videoFileAction
LessonInputs ==
  { [title |-> "A", videoUrl |-> "none", hasOfflineVideo |-> TRUE,  action |-> "file"],
    [title |-> "B", videoUrl |-> "url",  hasOfflineVideo |-> FALSE, action |-> "undefined"],
    [title |-> "B", videoUrl |-> "none", hasOfflineVideo |-> FALSE, action |-> "null"] }

VARIABLES
  now,              \* Date.now(), in ticks
  courses,          \* db.courses: id -> Course (lessons embedded)
  studentProgress,  \* db.studentProgress: studentId -> StudentProgress
  profiles,         \* db.profiles: id -> Profile
  videos,           \* db.videos: the lesson ids holding a blob
  syncQueue,        \* db.syncQueue in primary-key order
  nextId,           \* the next auto-increment key of db.syncQueue
  writes,           \* how many domain writes have returned
  lastOp,           \* the last domain write called and whether it returned or threw
  inflight,         \* the domain write that is between two of its awaits: the table
                    \*   operations it has still to make, and how many it has made
  rCourses,         \* remote table courses: id -> row
  rLessons,         \* remote table lessons: id -> row (course_id is a column)
  rProgress,        \* remote table student_progress: student_id -> row
  rProfiles,        \* remote table profiles: id -> row
  run,              \* per mediator handler (handleLogin, handleOnline): its position
                    \*   pc        where it stands ("idle", "call", "del", "fetch", "apply", "done")
                    \*   stage     which of the calls it awaits it is in
                    \*   snap      offlineActions, the queue snapshot of its replay run
                    \*   pos       the index of the loop over offlineActions
                    \*   calls     the remote calls made for the item at index calls.pos
                    \*   attempted the ids of the items attempted in the current run
                    \*   fetched   what syncDown's four selects returned
                    \*   log       the calls it started and saw return, in order
  user,             \* appState.currentUser (0: null)
  failures,         \* how many remote calls and transactions have failed
  triggers,         \* how many times a handler has been called
  eager,            \* history: the remote tables had every write been replayed at once
  replayed,         \* history: the item whose run stopped between its last remote call
                    \*   and its queue delete, and the remote tables at that moment
  applied           \* history: the queue items whose remote calls have all succeeded

localVars == <<courses, studentProgress, profiles, videos, syncQueue, nextId, writes, lastOp,
               inflight>>
remoteVars == <<rCourses, rLessons, rProgress, rProfiles>>
runVars == <<run, user, failures, triggers>>
histVars == <<eager, replayed, applied>>
vars == <<now, localVars, remoteVars, runVars, histVars>>

\* ---------------------------------------------------------------- helpers

Put(f, k, v) == [x \in DOMAIN f \cup {k} |-> IF x = k THEN v ELSE f[x]]

Del(f, K) == [x \in DOMAIN f \ K |-> f[x]]

Empty == [x \in {} |-> 0]

RECURSIVE GCD(_, _)
GCD(a, b) == IF b = 0 THEN a ELSE GCD(b, a % b)

\* the rational n/d in lowest terms (d > 0, n >= 0)
Frac(n, d) == LET g == GCD(n, d) IN <<n \div g, d \div g>>

ZeroR == <<0, 1>>

RAdd(x, y) == Frac(x[1] * y[2] + y[1] * x[2], x[2] * y[2])

RDivInt(x, k) == Frac(x[1], x[2] * k)

RPos(x) == x[1] > 0

RECURSIVE SumSeq(_)
SumSeq(s) == IF s = <<>> THEN 0 ELSE Head(s) + SumSeq(Tail(s))

RECURSIVE RSum(_)
RSum(s) == IF s = <<>> THEN ZeroR ELSE RAdd(Head(s), RSum(Tail(s)))

\* last write wins
Max2_Last(a, b) == b

Max2(a, b) == IF a >= b THEN a ELSE b

\* Array.prototype.findIndex, 1-based; 0 when nothing matches
\* (hits are the indices of the elements that match)
FindIndex(hits) ==
  IF hits # {} THEN CHOOSE i \in hits : \A j \in hits : i <= j ELSE 0

\* Array.prototype.splice(i, 1)
RemoveAt(s, i) == SubSeq(s, 1, i - 1) \o SubSeq(s, i + 1, Len(s))

RECURSIVE SortedSeq(_)
\* Dexie's toArray() of a table keyed by integers: ascending primary key
SortedSeq(S) ==
  IF S = {} THEN <<>>
  ELSE LET m == CHOOSE x \in S : \A y \in S : x <= y
       IN <<m>> \o SortedSeq(S \ {m})

\* new Date().toISOString().split('T')[0]
DateOf(t) == t \div DayTicks

Today == DateOf(now)

\* ---------------------------------------------------------------- the queue

QItem(id, type, payload, ts) ==
  [id |-> id, type |-> type, payload |-> payload, timestamp |-> ts]

\* db.syncQueue.add once per element of adds (<<type, payload>>), in order,
\* each stamped Date.now()
Enqueue(q, first, adds, ts) ==
  q \o [i \in 1..Len(adds) |-> QItem(first + i - 1, adds[i][1], adds[i][2], ts)]

QueueIds(q) == {q[i].id : i \in 1..Len(q)}

\* ---------------------------------------------------------------- progress aggregates

HasCourseProgress(sp, c) ==
  \E i \in 1..Len(sp.courseProgress) : sp.courseProgress[i].courseId = c

\* lessonStatus.filter(ls => ls.finalScore > 0)
CompletedWithScore(lessonStatus) ==
  SelectSeq(lessonStatus, LAMBDA ls : ls.finalScore > 0)

\* a mean taken over every attempted lesson, the zero scores included
CourseScore_OverAll(lessonStatus) ==
  LET total == SumSeq([i \in 1..Len(lessonStatus) |-> lessonStatus[i].finalScore])
  IN IF Len(lessonStatus) > 0 THEN Frac(total, Len(lessonStatus)) ELSE ZeroR

\* totalScore / completedLessonsWithScore.length, 0 when there are none
CourseScore(lessonStatus) ==
  LET done == CompletedWithScore(lessonStatus)
      total == SumSeq([i \in 1..Len(done) |-> done[i].finalScore])
  IN IF Len(done) > 0 THEN Frac(total, Len(done)) ELSE ZeroR

\* the recomputation of completedLessons and score of one CourseProgress
Recalculate(cp) ==
  [cp EXCEPT !.completedLessons = Len(CompletedWithScore(cp.lessonStatus)),
             !.score = CourseScore(cp.lessonStatus)]

\* mean of the course scores that are > 0, 0 when there are none
OverallAverage(cps) ==
  LET scores == SelectSeq([i \in 1..Len(cps) |-> cps[i].score], RPos)
  IN IF Len(scores) > 0 THEN RDivInt(RSum(scores), Len(scores)) ELSE ZeroR

\* todayHistory = scoreHistory.find(h => h.date === today); if found, overwrite its score
OverwriteToday(hist, today, avg) ==
  LET k == FindIndex({ix \in 1..Len(hist) : hist[ix].date = today})
  IN [i \in 1..Len(hist) |-> IF i = k THEN [hist[i] EXCEPT !.score = avg] ELSE hist[i]]

\* a recomputation that pushes an entry whether or not the date has one
UpsertToday_AlwaysPush(hist, today, avg) == Append(hist, [date |-> today, score |-> avg])

\* ... else push {date: today, score}
UpsertToday(hist, today, avg) ==
  IF \E i \in 1..Len(hist) : hist[i].date = today
  THEN OverwriteToday(hist, today, avg)
  ELSE Append(hist, [date |-> today, score |-> avg])

\* ---------------------------------------------------------------- domain writes

\* the record of a call: its name, whether it returned (ok) or threw, whether it was
\* given the id of an existing entity (isUpdate), and the ids it was given or made
Op(name, ok, isUpdate, c, l, st, score) ==
  [op |-> name, ok |-> ok, isUpdate |-> isUpdate, c |-> c, l |-> l, s |-> st,
   score |-> score]

\* no domain write is between two awaits
NoWrite == [op |-> Op("none", TRUE, FALSE, 0, 0, 0, 0), steps |-> <<>>, made |-> 0]

\* a domain write that returns: the tables it put, the queue items it added
Commit(newCourses, newProgress, newVideos, adds, op) ==
  /\ writes < MaxWrites
  /\ writes' = writes + 1
  /\ courses' = newCourses
  /\ studentProgress' = newProgress
  /\ videos' = newVideos
  /\ syncQueue' = Enqueue(syncQueue, nextId, adds, now)
  /\ nextId' = nextId + Len(adds)
  /\ lastOp' = op
  /\ UNCHANGED <<now, profiles, remoteVars, runVars>>

\* a domain write that throws before its first put
Throw(op) ==
  /\ lastOp' = op
  /\ UNCHANGED <<now, courses, studentProgress, profiles, videos, syncQueue, nextId,
                 writes, remoteVars, runVars>>

\* saveCourse without courseData.id
SaveCourseCreate(title) ==
  LET courseToSave == [id |-> now, title |-> title, authorId |-> Author, lessons |-> <<>>]
  IN Commit(Put(courses, now, courseToSave), studentProgress, videos,
            << <<"SAVE_COURSE", courseToSave>> >>, Op("saveCourse", TRUE, FALSE, now, 0, 0, 0))

\* saveCourse with courseData.id
SaveCourseUpdate(id, title) ==
  IF id \notin DOMAIN courses
  THEN Throw(Op("saveCourse", FALSE, TRUE, id, 0, 0, 0))
  ELSE LET courseToSave == [courses[id] EXCEPT !.title = title]
       IN Commit(Put(courses, id, courseToSave), studentProgress, videos,
                 << <<"SAVE_COURSE", courseToSave>> >>, Op("saveCourse", TRUE, TRUE, id, 0, 0, 0))

\* deleteCourse: what one student's record becomes (splice, recompute today's history)
WithoutCourse(sp, c, today) ==
  LET k == FindIndex({ix \in 1..Len(sp.courseProgress) : sp.courseProgress[ix].courseId = c})
      cps == RemoveAt(sp.courseProgress, k)
  IN [sp EXCEPT !.courseProgress = cps,
                !.scoreHistory = OverwriteToday(sp.scoreHistory, today, OverallAverage(cps))]

\* a deleteCourse that queues the course deletion ahead of its lessons
DeleteCourseAdds_CourseFirst(course, affected, newProgress) ==
  << <<"DELETE_COURSE", [id |-> course.id]>> >>
  \o [i \in 1..Len(course.lessons) |-> <<"DELETE_LESSON", [id |-> course.lessons[i].id]>>]
  \o [i \in 1..Len(affected) |-> <<"UPDATE_PROGRESS", newProgress[affected[i]]>>]

\* deleteCourse: the queue items of the cascade, in the order they are added
DeleteCourseAdds(course, affected, newProgress) ==
  [i \in 1..Len(course.lessons) |-> <<"DELETE_LESSON", [id |-> course.lessons[i].id]>>]
  \o << <<"DELETE_COURSE", [id |-> course.id]>> >>
  \o [i \in 1..Len(affected) |-> <<"UPDATE_PROGRESS", newProgress[affected[i]]>>]

DeleteCourse(c) ==
  IF c \notin DOMAIN courses
  THEN Commit(courses, studentProgress, videos, <<>>, Op("deleteCourse", TRUE, TRUE, c, 0, 0, 0))
  ELSE LET affected == SelectSeq(SortedSeq(DOMAIN studentProgress),
                                 LAMBDA st : HasCourseProgress(studentProgress[st], c))
           newProgress == [st \in DOMAIN studentProgress |->
                             IF HasCourseProgress(studentProgress[st], c)
                             THEN WithoutCourse(studentProgress[st], c, Today)
                             ELSE studentProgress[st]]
       IN Commit(Del(courses, {c}), newProgress, videos,
                 DeleteCourseAdds(courses[c], affected, newProgress),
                 Op("deleteCourse", TRUE, TRUE, c, 0, 0, 0))

\* the lesson saveLesson builds: {...lessonData, id: lessonId, quiz}
FinalLessonData(lessonId, in) ==
  [id |-> lessonId, title |-> in.title, videoUrl |-> in.videoUrl,
   hasOfflineVideo |-> in.hasOfflineVideo]

\* the SAVE_LESSON payload: {...finalLessonData, course_id: courseId}
LessonPayload(lesson, c) ==
  [id |-> lesson.id, title |-> lesson.title, videoUrl |-> lesson.videoUrl,
   hasOfflineVideo |-> lesson.hasOfflineVideo, course_id |-> c]

\* saveLesson's handling of videoFileAction; oldHas is oldLesson?.hasOfflineVideo
VideosAfterSave(lessonId, oldHas, in) ==
  IF in.action = "file" THEN videos \cup {lessonId}
  ELSE IF in.action = "null" THEN (IF oldHas THEN videos \ {lessonId} ELSE videos)
  ELSE IF in.videoUrl # "none" /\ oldHas THEN videos \ {lessonId}
  ELSE videos

\* a record whose totalLessons is left as it was
WithTotalLessons_Stale(sp, c, n) == sp

\* saveLesson (new lesson): courseProgress.totalLessons = course.lessons.length on the
\* first CourseProgress of the course
WithTotalLessons(sp, c, n) ==
  LET k == FindIndex({ix \in 1..Len(sp.courseProgress) : sp.courseProgress[ix].courseId = c})
  IN [sp EXCEPT !.courseProgress[k].totalLessons = n]

\* a saveLesson that queues the lesson only
SaveLessonCreateAdds_NoProgress(lesson, c, affected, newProgress) ==
  << <<"SAVE_LESSON", LessonPayload(lesson, c)>> >>

\* saveLesson (new lesson): the queue items it adds
SaveLessonCreateAdds(lesson, c, affected, newProgress) ==
  << <<"SAVE_LESSON", LessonPayload(lesson, c)>> >>
  \o [i \in 1..Len(affected) |-> <<"UPDATE_PROGRESS", newProgress[affected[i]]>>]

\* saveLesson without lessonData.id
SaveLessonCreate(c, in) ==
  IF c \notin DOMAIN courses
  THEN Throw(Op("saveLesson", FALSE, FALSE, c, 0, 0, 0))
  ELSE LET lesson == FinalLessonData(now, in)
           course == [courses[c] EXCEPT !.lessons = Append(@, lesson)]
           affected == SelectSeq(SortedSeq(DOMAIN studentProgress),
                                 LAMBDA st : HasCourseProgress(studentProgress[st], c))
           newProgress == [st \in DOMAIN studentProgress |->
                             IF HasCourseProgress(studentProgress[st], c)
                             THEN WithTotalLessons(studentProgress[st], c, Len(course.lessons))
                             ELSE studentProgress[st]]
       IN Commit(Put(courses, c, course), newProgress, VideosAfterSave(now, FALSE, in),
                 SaveLessonCreateAdds(lesson, c, affected, newProgress),
                 Op("saveLesson", TRUE, FALSE, c, now, 0, 0))

\* saveLesson with lessonData.id: the lesson list after the edit (unchanged when the
\* id is not in it)
ReplaceLesson(lessons, lesson) ==
  LET k == FindIndex({ix \in 1..Len(lessons) : lessons[ix].id = lesson.id})
  IN [i \in 1..Len(lessons) |-> IF i = k THEN lesson ELSE lessons[i]]

SaveLessonUpdate(c, l, in) ==
  IF c \notin DOMAIN courses
  THEN Throw(Op("saveLesson", FALSE, TRUE, c, l, 0, 0))
  ELSE LET k == FindIndex({ix \in 1..Len(courses[c].lessons) : courses[c].lessons[ix].id = l})
           oldHas == k > 0 /\ courses[c].lessons[k].hasOfflineVideo
           lesson == FinalLessonData(l, in)
           course == [courses[c] EXCEPT !.lessons = ReplaceLesson(@, lesson)]
       IN Commit(Put(courses, c, course), studentProgress, VideosAfterSave(l, oldHas, in),
                 << <<"SAVE_LESSON", LessonPayload(lesson, c)>> >>,
                 Op("saveLesson", TRUE, TRUE, c, l, 0, 0))

\* a clean-up that updates totalLessons and leaves the LessonStatus where it is
WithoutLesson_KeepStatus(sp, c, l, n, today) ==
  LET k == FindIndex({ix \in 1..Len(sp.courseProgress) : sp.courseProgress[ix].courseId = c})
  IN [sp EXCEPT !.courseProgress[k].totalLessons = n]

\* deleteLesson: what one student's record with progress in the course becomes
WithoutLesson(sp, c, l, n, today) ==
  LET k == FindIndex({ix \in 1..Len(sp.courseProgress) : sp.courseProgress[ix].courseId = c})
      cp == sp.courseProgress[k]
      j == FindIndex({ix \in 1..Len(cp.lessonStatus) : cp.lessonStatus[ix].lessonId = l})
      cp1 == IF j > 0
             THEN Recalculate([cp EXCEPT !.lessonStatus = RemoveAt(@, j)])
             ELSE cp
      cps1 == [sp.courseProgress EXCEPT ![k] = cp1]
      hist1 == IF j > 0
               THEN OverwriteToday(sp.scoreHistory, today, OverallAverage(cps1))
               ELSE sp.scoreHistory
      cp2 == [cp1 EXCEPT !.totalLessons = n]
  IN [sp EXCEPT !.courseProgress = [cps1 EXCEPT ![k] = cp2], !.scoreHistory = hist1]

\* deleteLesson: progressNeedsUpdate
ProgressNeedsUpdate(sp, c, l, n) ==
  LET k == FindIndex({ix \in 1..Len(sp.courseProgress) : sp.courseProgress[ix].courseId = c})
      cp == sp.courseProgress[k]
  IN \/ \E j \in 1..Len(cp.lessonStatus) : cp.lessonStatus[j].lessonId = l
     \/ cp.totalLessons # n

DeleteLesson(c, l) ==
  IF c \notin DOMAIN courses
  THEN Commit(courses, studentProgress, videos, <<>>, Op("deleteLesson", TRUE, TRUE, c, l, 0, 0))
  ELSE LET old == courses[c].lessons
           k == FindIndex({ix \in 1..Len(old) : old[ix].id = l})
           newVideos == IF k > 0 /\ old[k].hasOfflineVideo THEN videos \ {l} ELSE videos
           kept == SelectSeq(old, LAMBDA x : x.id # l)
           n == Len(kept)
           touched(st) == /\ HasCourseProgress(studentProgress[st], c)
                          /\ ProgressNeedsUpdate(studentProgress[st], c, l, n)
           affected == SelectSeq(SortedSeq(DOMAIN studentProgress), touched)
           newProgress == [st \in DOMAIN studentProgress |->
                             IF touched(st)
                             THEN WithoutLesson(studentProgress[st], c, l, n, Today)
                             ELSE studentProgress[st]]
       IN IF n < Len(old)
          THEN Commit(Put(courses, c, [courses[c] EXCEPT !.lessons = kept]),
                      newProgress, newVideos,
                      << <<"DELETE_LESSON", [id |-> l]>> >>
                      \o [i \in 1..Len(affected) |->
                            <<"UPDATE_PROGRESS", newProgress[affected[i]]>>],
                      Op("deleteLesson", TRUE, TRUE, c, l, 0, 0))
          ELSE Commit(courses, studentProgress, newVideos, <<>>,
                      Op("deleteLesson", TRUE, TRUE, c, l, 0, 0))

StudentName(st) == "name"

\* updateQuizProgress: the lessonStatus list after the attempt
AfterAttempt(lessonStatus, l, score) ==
  LET j == FindIndex({ix \in 1..Len(lessonStatus) : lessonStatus[ix].lessonId = l})
  IN IF j = 0
     THEN Append(lessonStatus, [lessonId |-> l, attempts |-> 1, finalScore |-> score])
     ELSE [lessonStatus EXCEPT ![j] = [@ EXCEPT !.attempts = @ + 1,
                                                !.finalScore = Max2(@, score)]]

\* updateQuizProgress: the student's record after the attempt
QuizProgress(sp, c, l, score, total, today) ==
  LET k0 == FindIndex({ix \in 1..Len(sp.courseProgress) : sp.courseProgress[ix].courseId = c})
      cps0 == IF k0 = 0
              THEN Append(sp.courseProgress,
                          [courseId |-> c, completedLessons |-> 0, totalLessons |-> total,
                           score |-> ZeroR, lessonStatus |-> <<>>])
              ELSE sp.courseProgress
      k == IF k0 = 0 THEN Len(cps0) ELSE k0
      cp == Recalculate([cps0[k] EXCEPT !.lessonStatus = AfterAttempt(@, l, score)])
      cps == [cps0 EXCEPT ![k] = cp]
  IN [sp EXCEPT !.courseProgress = cps,
                !.scoreHistory = UpsertToday(sp.scoreHistory, today, OverallAverage(cps))]

UpdateQuizProgress(st, c, l, score) ==
  LET sp0 == IF st \in DOMAIN studentProgress
             THEN studentProgress[st]
             ELSE [studentId |-> st, studentName |-> StudentName(st),
                   courseProgress |-> <<>>, scoreHistory |-> <<>>]
      total == IF c \in DOMAIN courses THEN Len(courses[c].lessons) ELSE 0
      sp == QuizProgress(sp0, c, l, score, total, Today)
  IN Commit(courses, Put(studentProgress, st, sp), videos,
            << <<"UPDATE_PROGRESS", sp>> >>, Op("updateQuizProgress", TRUE, FALSE, c, l, st, score))

\* the clock advances
Tick ==
  /\ now < MaxClock
  /\ now' = now + 1
  /\ UNCHANGED <<localVars, remoteVars, runVars, histVars>>

\* ---------------------------------------------------------------- the remote tables

Tables == {"courses", "lessons", "student_progress", "profiles"}

\* the row processSyncQueue upserts for SAVE_COURSE
CourseRow(course) == [id |-> course.id, title |-> course.title, author_id |-> course.authorId]

\* the row processSyncQueue upserts for SAVE_LESSON (hasOfflineVideo is not sent)
LessonRow(lesson) ==
  [id |-> lesson.id, course_id |-> lesson.course_id, title |-> lesson.title,
   video_url |-> lesson.videoUrl]

\* the row processSyncQueue upserts for UPDATE_PROGRESS
ProgressRow(sp) ==
  [student_id |-> sp.studentId, student_name |-> sp.studentName,
   course_progress |-> sp.courseProgress, score_history |-> sp.scoreHistory]

\* DELETE_COURSE step 3: the rows whose course_progress loses an entry
ProgressUpdates(allProgress, c) ==
  LET stripped(st) == SelectSeq(allProgress[st].course_progress,
                                LAMBDA cp : cp.courseId # c)
      hit == {st \in DOMAIN allProgress :
                Len(stripped(st)) < Len(allProgress[st].course_progress)}
  IN [st \in hit |-> [student_id |-> st, course_progress |-> stripped(st)]]

\* an upsert that adds the given course_progress to the row's instead of replacing it
UpsertCourseProgress_Append(table, updates) ==
  [st \in DOMAIN table \cup DOMAIN updates |->
     IF st \in DOMAIN updates
     THEN IF st \in DOMAIN table
          THEN [table[st] EXCEPT !.course_progress = @ \o updates[st].course_progress]
          ELSE [student_id |-> st, student_name |-> "null",
                course_progress |-> updates[st].course_progress, score_history |-> <<>>]
     ELSE table[st]]

\* upsert of rows carrying student_id and course_progress only
UpsertCourseProgress(table, updates) ==
  [st \in DOMAIN table \cup DOMAIN updates |->
     IF st \in DOMAIN updates
     THEN IF st \in DOMAIN table
          THEN [table[st] EXCEPT !.course_progress = updates[st].course_progress]
          ELSE [student_id |-> st, student_name |-> "null",
                course_progress |-> updates[st].course_progress, score_history |-> <<>>]
     ELSE table[st]]

\* the remote calls one queue item needs, in order, given the calls made so far
\* (the upsert of DELETE_COURSE is made only when the select found rows to update)
NextCall(item, made) ==
  CASE item.type = "UPDATE_PROGRESS" -> IF made = <<>> THEN "student_progress.upsert" ELSE "none"
    [] item.type = "SAVE_COURSE" -> IF made = <<>> THEN "courses.upsert" ELSE "none"
    [] item.type = "SAVE_LESSON" -> IF made = <<>> THEN "lessons.upsert" ELSE "none"
    [] item.type = "DELETE_LESSON" -> IF made = <<>> THEN "lessons.delete" ELSE "none"
    [] item.type = "DELETE_COURSE" ->
         IF Len(made) = 0 THEN "lessons.deleteByCourse"
         ELSE IF Len(made) = 1 THEN "courses.delete"
         ELSE IF Len(made) = 2 THEN "student_progress.select"
         ELSE IF Len(made) = 3 /\ DOMAIN made[3].data # {} THEN "progress.upsertMany"
         ELSE "none"

\* the effect of one successful remote call on the tables remote =
\* <<courses, lessons, student_progress, profiles>>; rows are the rows its upsert
\* is given
CallEffect(remote, call, item, rows) ==
  CASE call = "student_progress.upsert" ->
         <<remote[1], remote[2],
           Put(remote[3], item.payload.studentId, ProgressRow(item.payload)), remote[4]>>
    [] call = "courses.upsert" ->
         <<Put(remote[1], item.payload.id, CourseRow(item.payload)), remote[2], remote[3],
           remote[4]>>
    [] call = "lessons.upsert" ->
         <<remote[1], Put(remote[2], item.payload.id, LessonRow(item.payload)), remote[3],
           remote[4]>>
    [] call = "lessons.delete" ->
         <<remote[1], Del(remote[2], {item.payload.id}), remote[3], remote[4]>>
    [] call = "lessons.deleteByCourse" ->
         <<remote[1],
           Del(remote[2], {l \in DOMAIN remote[2] : remote[2][l].course_id = item.payload.id}),
           remote[3], remote[4]>>
    [] call = "courses.delete" ->
         <<Del(remote[1], {item.payload.id}), remote[2], remote[3], remote[4]>>
    [] call = "student_progress.select" -> remote
    [] call = "progress.upsertMany" ->
         <<remote[1], remote[2], UpsertCourseProgress(remote[3], rows), remote[4]>>

\* the effect of one successful remote call on the four tables
RemoteAfter(call, item, made) ==
  CallEffect(<<rCourses, rLessons, rProgress, rProfiles>>, call, item,
             IF call = "progress.upsertMany" THEN made[3].data ELSE Empty)

\* what a call returns besides its error: the select of DELETE_COURSE returns the rows
\* it needs to rewrite
CallData(call, item) ==
  IF call = "student_progress.select"
  THEN ProgressUpdates(rProgress, item.payload.id)
  ELSE Empty

\* ---------------------------------------------------------------- processSyncQueue

\* the order of db.syncQueue.orderBy('timestamp'): by the index key, then by primary key
\* an order that takes the newest of the items with one timestamp first
KeyLess_NewestFirst(a, b) ==
  \/ a.timestamp < b.timestamp
  \/ a.timestamp = b.timestamp /\ a.id > b.id

KeyLess(a, b) ==
  \/ a.timestamp < b.timestamp
  \/ a.timestamp = b.timestamp /\ a.id < b.id

RECURSIVE OrderByTimestamp(_)
OrderByTimestamp(q) ==
  IF q = <<>> THEN <<>>
  ELSE LET k == CHOOSE i \in 1..Len(q) : \A j \in 1..Len(q) : j = i \/ KeyLess(q[i], q[j])
       IN <<q[k]>> \o OrderByTimestamp(RemoveAt(q, k))

\* a delete that removes nothing
QueueDelete_Keep(q, id) == q

\* db.syncQueue.delete(id)
QueueDelete(q, id) == SelectSeq(q, LAMBDA x : x.id # id)

\* a loop that does not look at the error of the call
AfterCall_IgnoreError(item, made) ==
  IF NextCall(item, made) = "none" THEN "del" ELSE "call"

\* where the loop goes after a remote call returned: the catch block and the next item
\* on an error, the next call of the item, or the queue delete
AfterCall(item, made) ==
  IF ~made[Len(made)].ok THEN "next"
  ELSE IF NextCall(item, made) = "none" THEN "del"
  ELSE "call"

RECURSIVE ReplayFrom(_, _, _)
\* the tables after the remaining calls of one item, all returning without an error
ReplayFrom(remote, item, made) ==
  LET call == NextCall(item, made)
      data == IF call = "student_progress.select"
              THEN ProgressUpdates(remote[3], item.payload.id)
              ELSE Empty
  IN IF call = "none" THEN remote
     ELSE ReplayFrom(CallEffect(remote, call, item,
                                IF call = "progress.upsertMany" THEN made[3].data ELSE Empty),
                     item, Append(made, [op |-> call, ok |-> TRUE, data |-> data]))

RECURSIVE ReplayAll(_, _)
\* the tables after one processSyncQueue run over the queue q in which no call fails
ReplayAll(remote, q) ==
  LET snap == OrderByTimestamp(q)
  IN IF q = <<>> THEN remote
     ELSE ReplayAll(ReplayFrom(remote, snap[1], <<>>), Tail(snap))

\* ---------------------------------------------------------------- syncDown

\* a syncDown that checks the result of the courses select only
FetchThrows_CoursesOnly(failed) == "courses" \in failed

\* `if (xRes.error) throw xRes.error`, for the four results
FetchThrows(failed) == failed # {}

\* xRes.data || [] of the four selects; failed are the tables whose select returned an error
Fetch(failed) ==
  [courses |-> IF "courses" \in failed THEN Empty ELSE rCourses,
   lessons |-> IF "lessons" \in failed THEN Empty ELSE rLessons,
   progress |-> IF "student_progress" \in failed THEN Empty ELSE rProgress,
   profiles |-> IF "profiles" \in failed THEN Empty ELSE rProfiles]

NoFetch == [courses |-> Empty, lessons |-> Empty, progress |-> Empty, profiles |-> Empty]

\* the nested shape with every CourseProgress of the row kept
AllProgress_Unfiltered(f) ==
  [st \in DOMAIN f.progress |->
     [studentId |-> st,
      studentName |-> f.progress[st].student_name,
      courseProgress |-> f.progress[st].course_progress,
      scoreHistory |-> f.progress[st].score_history]]

\* allProgress: the nested shape, CourseProgress filtered to the fetched course ids
AllProgress(f) ==
  [st \in DOMAIN f.progress |->
     [studentId |-> st,
      studentName |-> f.progress[st].student_name,
      courseProgress |-> SelectSeq(f.progress[st].course_progress,
                                   LAMBDA cp : cp.courseId \in DOMAIN f.courses),
      scoreHistory |-> f.progress[st].score_history]]

\* the ids of the queued SAVE_COURSE payloads
PendingCreationIds(q) ==
  {q[i].payload.id : i \in {j \in 1..Len(q) : q[j].type = "SAVE_COURSE"}}

\* a reconciliation that does not protect the pending creations
CoursesToDelete_Unprotected(localIds, serverIds, pendingIds) ==
  {id \in localIds : id \notin serverIds}

CoursesToDelete(localIds, serverIds, pendingIds) ==
  {id \in localIds : id \notin serverIds /\ id \notin pendingIds}

\* a reconciliation that deletes no local row
StaleIds_None(localIds, serverIds) == {}

StaleIds(localIds, serverIds) == {id \in localIds : id \notin serverIds}

\* the fetched lessons of one course, in the order the select returned them
LessonsOf(f, c) ==
  LET ids == SelectSeq(SortedSeq(DOMAIN f.lessons), LAMBDA l : f.lessons[l].course_id = c)
  IN [i \in 1..Len(ids) |->
        [id |-> ids[i], title |-> f.lessons[ids[i]].title,
         videoUrl |-> f.lessons[ids[i]].video_url, hasOfflineVideo |-> FALSE]]

CoursesWithLessons(f) ==
  [c \in DOMAIN f.courses |->
     [id |-> c, title |-> f.courses[c].title, authorId |-> f.courses[c].author_id,
      lessons |-> LessonsOf(f, c)]]

\* bulkDelete(stale) then bulkPut(rows) on one table
BulkReplace(table, stale, rows) ==
  [x \in (DOMAIN table \ stale) \cup DOMAIN rows |->
     IF x \in DOMAIN rows THEN rows[x] ELSE table[x]]

\* ---------------------------------------------------------------- the mediator

Handlers == {"login", "online"}

\* appState.currentUser as the closure of handleOnline sees it: the effect that
\* registers the listener runs once, on the first render, where it is null
ClosureUser == 0

\* a mediator that reconciles before it replays
HandlerCalls_SyncDownFirst(h) == <<"syncDown", "processSyncQueue">>

\* what a handler awaits, in order
HandlerCalls(h) ==
  IF h = "login" \/ ClosureUser # 0
  THEN <<"processSyncQueue", "syncDown">>
  ELSE <<"processSyncQueue">>

NoCalls == [pos |-> 0, made |-> <<>>]

IdleRun ==
  [pc |-> "idle", stage |-> 0, snap |-> <<>>, pos |-> 0, calls |-> NoCalls,
   attempted |-> <<>>, fetched |-> NoFetch, failed |-> {}, log |-> <<>>]

RECURSIVE EnterStage(_, _, _, _)
\* handler h, in state r, goes on to the k-th call it awaits; q is the queue it reads
\* if that call is processSyncQueue (which returns at once on an empty queue)
EnterStage(h, r, k, q) ==
  IF k > Len(HandlerCalls(h))
  THEN [r EXCEPT !.pc = "done", !.stage = k]
  ELSE IF HandlerCalls(h)[k] = "processSyncQueue"
  THEN LET r1 == [r EXCEPT !.stage = k, !.snap = OrderByTimestamp(q), !.pos = 1,
                           !.calls = NoCalls, !.attempted = <<>>,
                           !.log = Append(@, "psq:start")]
       IN IF r1.snap = <<>>
          THEN EnterStage(h, [r1 EXCEPT !.log = Append(@, "psq:end")], k + 1, q)
          ELSE [r1 EXCEPT !.pc = "call"]
  ELSE [r EXCEPT !.pc = "fetch", !.stage = k, !.log = Append(@, "sd:start")]

\* a loop that a failed item breaks
NextItem_StopOnFailure(h, r, q) ==
  IF r.pos + 1 <= Len(r.snap)
     /\ ~(r.calls.pos = r.pos /\ r.calls.made # <<>>
          /\ ~r.calls.made[Len(r.calls.made)].ok)
  THEN [r EXCEPT !.pos = @ + 1, !.pc = "call"]
  ELSE EnterStage(h, [r EXCEPT !.pos = @ + 1, !.log = Append(@, "psq:end")],
                  r.stage + 1, q)

\* the loop of processSyncQueue moves to its next item, or the run returns
NextItem(h, r, q) ==
  IF r.pos + 1 <= Len(r.snap)
  THEN [r EXCEPT !.pos = @ + 1, !.pc = "call"]
  ELSE EnterStage(h, [r EXCEPT !.pos = @ + 1, !.log = Append(@, "psq:end")],
                  r.stage + 1, q)

\* handleLogin(user) is called / the 'online' event fires
Trigger(h) ==
  /\ run[h].pc = "idle"
  /\ triggers < MaxTriggers
  /\ triggers' = triggers + 1
  /\ run' = [run EXCEPT ![h] = EnterStage(h, IdleRun, 1, syncQueue)]
  /\ UNCHANGED <<now, localVars, remoteVars, user, failures, histVars>>

\* one remote call of the item at hand returns, with or without an error
PsqCall(h, ok) ==
  /\ run[h].pc = "call"
  /\ ok \/ failures < MaxFailures
  /\ failures' = IF ok THEN failures ELSE failures + 1
  /\ LET r == run[h]
         item == r.snap[r.pos]
         made0 == IF r.calls.pos = r.pos THEN r.calls.made ELSE <<>>
         call == NextCall(item, made0)
         made == Append(made0, [op |-> call, ok |-> ok,
                                data |-> IF ok THEN CallData(call, item) ELSE Empty])
         r1 == [r EXCEPT !.calls = [pos |-> r.pos, made |-> made],
                         !.attempted = IF made0 = <<>> THEN Append(@, item.id) ELSE @]
         to == AfterCall(item, made)
         r2 == IF to = "next" THEN NextItem(h, r1, syncQueue) ELSE [r1 EXCEPT !.pc = to]
     IN /\ run' = [run EXCEPT ![h] = r2]
        /\ LET remote == IF ok THEN RemoteAfter(call, item, made0)
                         ELSE <<rCourses, rLessons, rProgress, rProfiles>>
           IN /\ rCourses' = remote[1]
              /\ rLessons' = remote[2]
              /\ rProgress' = remote[3]
              /\ rProfiles' = remote[4]
        /\ applied' = IF to = "del" THEN applied \cup {item} ELSE applied
  /\ UNCHANGED <<now, localVars, user, triggers, eager, replayed>>

\* await db.syncQueue.delete(action.id)
PsqDelete(h) ==
  /\ run[h].pc = "del"
  /\ LET r == run[h]
         q == QueueDelete(syncQueue, r.snap[r.pos].id)
         r2 == NextItem(h, r, q)
     IN /\ syncQueue' = q
        /\ run' = [run EXCEPT ![h] = r2]
  /\ UNCHANGED <<now, courses, studentProgress, profiles, videos, nextId, writes,
                 lastOp, inflight, remoteVars, user, failures, triggers, histVars>>

\* how the promise of syncDown settles for its caller: the catch block logs the error
\* and does not rethrow, so the function returns undefined whether or not it threw
SyncDownSettles(threw) == IF threw THEN "fulfilled" ELSE "fulfilled"

\* the four selects of syncDown return; failed are those that return an error
SdFetch(h, failed) ==
  /\ run[h].pc = "fetch"
  /\ failed = {} \/ failures < MaxFailures
  /\ failures' = IF failed = {} THEN failures ELSE failures + 1
  /\ LET r == [run[h] EXCEPT !.failed = failed]
         r2 == IF FetchThrows(failed)
               THEN EnterStage(h, [r EXCEPT !.log = @ \o <<"sd:failed", "sd:end">>],
                               r.stage + 1, syncQueue)
               ELSE [r EXCEPT !.pc = "apply", !.fetched = Fetch(failed)]
     IN run' = [run EXCEPT ![h] = r2]
  /\ UNCHANGED <<now, localVars, remoteVars, user, triggers, histVars>>

\* the local reads of syncDown and its transaction
SdApply(h) ==
  /\ run[h].pc = "apply"
  /\ LET r == run[h]
         f == r.fetched
         progress == AllProgress(f)
         r2 == EnterStage(h, [r EXCEPT !.log = Append(@, "sd:end")], r.stage + 1, syncQueue)
     IN /\ courses' = BulkReplace(courses,
                                  CoursesToDelete(DOMAIN courses, DOMAIN f.courses,
                                                  PendingCreationIds(syncQueue)),
                                  CoursesWithLessons(f))
        /\ studentProgress' = BulkReplace(studentProgress,
                                          StaleIds(DOMAIN studentProgress, DOMAIN progress),
                                          progress)
        /\ profiles' = BulkReplace(profiles, StaleIds(DOMAIN profiles, DOMAIN f.profiles),
                                   f.profiles)
        /\ run' = [run EXCEPT ![h] = r2]
  /\ UNCHANGED <<now, videos, syncQueue, nextId, writes, lastOp, inflight, remoteVars,
                 user, failures, triggers, histVars>>

\* the transaction of syncDown fails and is rolled back; the catch block logs it
SdApplyFails(h) ==
  /\ run[h].pc = "apply"
  /\ failures < MaxFailures
  /\ failures' = failures + 1
  /\ LET r == run[h]
         r2 == EnterStage(h, [r EXCEPT !.log = @ \o <<"sd:failed", "sd:end">>],
                          r.stage + 1, syncQueue)
     IN run' = [run EXCEPT ![h] = r2]
  /\ UNCHANGED <<now, localVars, remoteVars, user, triggers, histVars>>

\* the handler returns; handleLogin has set currentUser
Return(h) ==
  /\ run[h].pc = "done"
  /\ run' = [run EXCEPT ![h] = IdleRun]
  /\ user' = IF h = "login" THEN 1 ELSE user
  /\ UNCHANGED <<now, localVars, remoteVars, failures, triggers, histVars>>

NoCrash == [id |-> 0, remote |-> <<>>]

\* the page is closed or reloaded after the last remote call of an item returned and
\* before db.syncQueue.delete ran: the run is gone, the item is still queued
CrashBeforeDelete(h) ==
  /\ run[h].pc = "del"
  /\ replayed = NoCrash
  /\ replayed' = [id |-> run[h].snap[run[h].pos].id,
                  remote |-> <<rCourses, rLessons, rProgress, rProfiles>>]
  /\ run' = [run EXCEPT ![h] = IdleRun]
  /\ UNCHANGED <<now, localVars, remoteVars, user, failures, triggers, eager, applied>>

\* ---------------------------------------------------------------- specifications

\* what other clients may have left in the remote tables: nothing, or a course with two
\* lessons and the progress of two students in it (student 1 also lists a course that
\* is no longer there)
Foreign == MaxClock + 1

\* a CourseProgress written by another client: one attempted lesson with a score,
\* preceded by the lessons in zeros that were attempted with a score of 0
OtherCP(c, total, zeros, l, attempts, score) ==
  [courseId |-> c, completedLessons |-> 1, totalLessons |-> total, score |-> <<score, 1>>,
   lessonStatus |-> [i \in 1..Len(zeros) |-> [lessonId |-> zeros[i], attempts |-> 1,
                                               finalScore |-> 0]]
                    \o <<[lessonId |-> l, attempts |-> attempts, finalScore |-> score]>>]

OtherProgress(st, cps) ==
  [student_id |-> st, student_name |-> StudentName(st), course_progress |-> cps,
   score_history |-> <<[date |-> DateOf(1), score |-> OverallAverage(cps)]>>]

NoRemote == [courses |-> Empty, lessons |-> Empty, progress |-> Empty, profiles |-> Empty]

\* one course with one lesson; student 1 has progress in it and in a course that is gone
SmallRemote ==
  [courses |-> [c \in {Foreign} |-> [id |-> c, title |-> "A", author_id |-> Author]],
   lessons |-> [l \in {Foreign} |->
                 [id |-> l, course_id |-> Foreign, title |-> "A", video_url |-> "url"]],
   progress |->
     [st \in {1} |->
        OtherProgress(st,
          <<OtherCP(Foreign, 1, <<>>, Foreign, 1, 60),
            OtherCP(Foreign + 1, 2, <<>>, 1, 2, 80)>>)],
   profiles |-> [p \in {1} |-> [id |-> p, username |-> StudentName(p)]]]

\* one course with two lessons; both students have progress in it
LargeRemote ==
  [courses |-> [c \in {Foreign} |-> [id |-> c, title |-> "A", author_id |-> Author]],
   lessons |-> [l \in {Foreign, Foreign + 1} |->
                 [id |-> l, course_id |-> Foreign, title |-> "A", video_url |-> "url"]],
   progress |->
     [st \in Students |->
        IF st = 1
        THEN OtherProgress(st,
               <<OtherCP(Foreign, 2, <<>>, Foreign, 1, 60),
                 OtherCP(Foreign + 1, 2, <<>>, 1, 2, 80)>>)
        ELSE OtherProgress(st, <<OtherCP(Foreign, 2, <<Foreign>>, Foreign + 1, 1, 80)>>)],
   profiles |-> [p \in Students |-> [id |-> p, username |-> StudentName(p)]]]

InitRun ==
  /\ now = 1
  /\ videos = {}
  /\ syncQueue = <<>>
  /\ nextId = 1
  /\ writes = 0
  /\ lastOp = Op("none", TRUE, FALSE, 0, 0, 0, 0)
  /\ run = [h \in Handlers |-> IdleRun]
  /\ failures = 0
  /\ triggers = 0
  /\ replayed = NoCrash
  /\ applied = {}
  /\ inflight = NoWrite

InitRemote(r) ==
  /\ rCourses = r.courses
  /\ rLessons = r.lessons
  /\ rProgress = r.progress
  /\ rProfiles = r.profiles
  /\ eager = <<r.courses, r.lessons, r.progress, r.profiles>>

\* a fresh installation: the local tables are empty
Init ==
  /\ InitRun
  /\ user = 0
  /\ courses = Empty
  /\ studentProgress = Empty
  /\ profiles = Empty
  /\ \E r \in {NoRemote, SmallRemote} : InitRemote(r)

\* a client that has logged in once: the local tables hold what syncDown pulled
InitSynced ==
  /\ InitRun
  /\ user = 1
  /\ \E r \in {NoRemote, LargeRemote} :
       /\ InitRemote(r)
       /\ courses = BulkReplace(Empty, {}, CoursesWithLessons(r))
       /\ studentProgress = BulkReplace(Empty, {}, AllProgress(r))
       /\ profiles = BulkReplace(Empty, {}, r.profiles)

\* an id no course and no lesson has
NoSuchId == Foreign + 2

CourseIds == DOMAIN courses \cup {NoSuchId}

LessonIdsOf(c) ==
  IF c \in DOMAIN courses
  THEN {courses[c].lessons[i].id : i \in 1..Len(courses[c].lessons)} \cup {NoSuchId}
  ELSE {NoSuchId}

\* the history of a write: its queue items replayed at once, on their own
Track ==
  /\ eager' = ReplayAll(eager, SubSeq(syncQueue', Len(syncQueue) + 1, Len(syncQueue')))
  /\ UNCHANGED <<replayed, applied, inflight>>

WriteOver(students, titles, scores, inputs) ==
  \/ (\E t \in titles : SaveCourseCreate(t)) /\ Track
  \/ (\E c \in CourseIds, t \in titles : SaveCourseUpdate(c, t)) /\ Track
  \/ (\E c \in CourseIds : DeleteCourse(c)) /\ Track
  \/ (\E c \in CourseIds, in \in inputs : SaveLessonCreate(c, in)) /\ Track
  \/ (\E c \in CourseIds : \E l \in LessonIdsOf(c), in \in inputs :
         SaveLessonUpdate(c, l, in)) /\ Track
  \/ (\E c \in CourseIds : \E l \in LessonIdsOf(c) : DeleteLesson(c, l)) /\ Track
  \/ (\E st \in students, c \in CourseIds, sc \in scores :
         \E l \in LessonIdsOf(c) : UpdateQuizProgress(st, c, l, sc)) /\ Track

Sync ==
  \/ \E h \in Handlers : Trigger(h)
  \/ \E h \in Handlers, ok \in BOOLEAN : PsqCall(h, ok)
  \/ \E h \in Handlers : PsqDelete(h)
  \/ \E h \in Handlers, failed \in SUBSET Tables : SdFetch(h, failed)
  \/ \E h \in Handlers : SdApply(h)
  \/ \E h \in Handlers : SdApplyFails(h)
  \/ \E h \in Handlers : Return(h)

NextLocal == Tick \/ WriteOver(Students, Titles, Scores, LessonInputs)

SpecLocal == (InitSynced \/ Init) /\ [][NextLocal]_vars

\* the writes of one student and one teacher, replayed and reconciled
Next ==
  \/ Tick
  \/ WriteOver({1}, {"B"}, {80}, {in \in LessonInputs : in.action = "undefined"})
  \/ Sync

Spec == Init /\ [][Next]_vars

\* replay alone: the writes of one student and one teacher and the 'online' handler,
\* whose remote calls all succeed and whose run may be cut off once before a queue delete
NextReplay ==
  \/ Tick
  \/ WriteOver({1}, {"B"}, {80}, {in \in LessonInputs : in.action = "undefined"})
  \/ Trigger("online")
  \/ PsqCall("online", TRUE)
  \/ PsqDelete("online")
  \/ CrashBeforeDelete("online")
  \/ Return("online")

SpecReplay == (Init \/ InitSynced) /\ [][NextReplay]_vars

\* the pulled remote without the progress of the course that is gone: every row has a
\* local counterpart
TidyRemote ==
  [LargeRemote EXCEPT
     !.progress = [st \in Students |->
                     IF st = 1
                     THEN OtherProgress(st, <<OtherCP(Foreign, 2, <<>>, Foreign, 1, 60)>>)
                     ELSE LargeRemote.progress[st]]]

\* a client right after a syncDown of a remote it agrees with
InitConverged ==
  /\ InitRun
  /\ user = 1
  /\ \E r \in {NoRemote, TidyRemote} :
       /\ InitRemote(r)
       /\ courses = BulkReplace(Empty, {}, CoursesWithLessons(r))
       /\ studentProgress = BulkReplace(Empty, {}, AllProgress(r))
       /\ profiles = BulkReplace(Empty, {}, r.profiles)

\* a single client whose writes are replayed with every remote call succeeding
SpecConverge == InitConverged /\ [][NextReplay]_vars

\* the 'online' event fires, however many times it has fired before
Retrigger(h) ==
  /\ run[h].pc = "idle"
  /\ triggers' = IF triggers < MaxTriggers THEN triggers + 1 ELSE triggers
  /\ run' = [run EXCEPT ![h] = EnterStage(h, IdleRun, 1, syncQueue)]
  /\ UNCHANGED <<now, localVars, remoteVars, user, failures, histVars>>

\* connectivity keeps coming back: the 'online' handler is called again and again, its
\* remote calls fail at most MaxFailures times, and local writes stop after MaxWrites
NextHeal ==
  \/ Tick
  \/ WriteOver({1}, {"B"}, {80}, {in \in LessonInputs : in.action = "undefined"})
  \/ Retrigger("online")
  \/ \E ok \in BOOLEAN : PsqCall("online", ok)
  \/ PsqDelete("online")
  \/ Return("online")

\* the event loop runs every handler step that is ready, and the event keeps firing
SpecHeal ==
  /\ Init
  /\ [][NextHeal]_vars
  /\ WF_vars(Retrigger("online"))
  /\ WF_vars(\E ok \in BOOLEAN : PsqCall("online", ok))
  /\ WF_vars(PsqDelete("online"))
  /\ WF_vars(Return("online"))

\* ---------------------------------------------------------------- writes, await by await

\* one awaited table operation of a domain write
TableOp(kind, key, value) == [kind |-> kind, key |-> key, value |-> value]

\* saveCourse without courseData.id is called: db.courses.put, then db.syncQueue.add
BeginSaveCourse(title) ==
  /\ inflight = NoWrite
  /\ writes < MaxWrites
  /\ writes' = writes + 1
  /\ LET courseToSave == [id |-> now, title |-> title, authorId |-> Author, lessons |-> <<>>]
     IN inflight' = [op |-> Op("saveCourse", TRUE, FALSE, now, 0, 0, 0),
                     steps |-> <<TableOp("courses.put", now, courseToSave),
                                 TableOp("syncQueue.add", "SAVE_COURSE", courseToSave)>>,
                     made |-> 0]
  /\ UNCHANGED <<now, courses, studentProgress, profiles, videos, syncQueue, nextId, lastOp,
                 remoteVars, runVars, histVars>>

\* deleteCourse is called and has read the course: one db.syncQueue.add per lesson, one
\* for the course, then db.courses.delete
BeginDeleteCourse(c) ==
  /\ inflight = NoWrite
  /\ writes < MaxWrites
  /\ c \in DOMAIN courses
  /\ writes' = writes + 1
  /\ inflight' = [op |-> Op("deleteCourse", TRUE, TRUE, c, 0, 0, 0),
                  steps |-> [i \in 1..Len(courses[c].lessons) |->
                               TableOp("syncQueue.add", "DELETE_LESSON",
                                       [id |-> courses[c].lessons[i].id])]
                            \o <<TableOp("syncQueue.add", "DELETE_COURSE", [id |-> c]),
                                 TableOp("courses.delete", c, 0)>>,
                  made |-> 0]
  /\ UNCHANGED <<now, courses, studentProgress, profiles, videos, syncQueue, nextId, lastOp,
                 remoteVars, runVars, histVars>>

\* deleteCourse after db.courses.delete: it reads all progress records and, for each that
\* lists the course, puts the record without it and adds an UPDATE_PROGRESS
ProgressOps(c) ==
  LET affected == SelectSeq(SortedSeq(DOMAIN studentProgress),
                            LAMBDA st : HasCourseProgress(studentProgress[st], c))
  IN [i \in 1..(2 * Len(affected)) |->
        LET st == affected[(i + 1) \div 2]
            sp == WithoutCourse(studentProgress[st], c, Today)
        IN IF i % 2 = 1 THEN TableOp("studentProgress.put", st, sp)
           ELSE TableOp("syncQueue.add", "UPDATE_PROGRESS", sp)]

\* the awaited table operation of the write in flight completes
WriteStep ==
  /\ inflight.steps # <<>>
  /\ LET op == Head(inflight.steps)
         adds == IF op.kind = "syncQueue.add" THEN << <<op.key, op.value>> >> ELSE <<>>
         more == IF op.kind = "courses.delete" THEN ProgressOps(op.key) ELSE <<>>
     IN /\ courses' = CASE op.kind = "courses.put" -> Put(courses, op.key, op.value)
                        [] op.kind = "courses.delete" -> Del(courses, {op.key})
                        [] OTHER -> courses
        /\ studentProgress' = IF op.kind = "studentProgress.put"
                              THEN Put(studentProgress, op.key, op.value)
                              ELSE studentProgress
        /\ syncQueue' = Enqueue(syncQueue, nextId, adds, now)
        /\ nextId' = nextId + Len(adds)
        /\ inflight' = [inflight EXCEPT !.steps = Tail(@) \o more, !.made = @ + 1]
        /\ eager' = ReplayAll(eager, SubSeq(syncQueue', Len(syncQueue) + 1, Len(syncQueue')))
  /\ UNCHANGED <<now, profiles, videos, writes, lastOp, remoteVars, runVars, replayed,
                 applied>>

\* the write in flight returns
WriteReturn ==
  /\ inflight.steps = <<>>
  /\ inflight.made > 0
  /\ lastOp' = inflight.op
  /\ inflight' = NoWrite
  /\ UNCHANGED <<now, courses, studentProgress, profiles, videos, syncQueue, nextId, writes,
                 remoteVars, runVars, histVars>>

\* the page is closed or reloaded while a write is between two awaits: the write and
\* the handler runs are gone, the tables keep what was put
CrashInWrite ==
  /\ inflight.steps # <<>>
  /\ inflight.made > 0
  /\ inflight' = NoWrite
  /\ run' = [h \in Handlers |-> IdleRun]
  /\ UNCHANGED <<now, courses, studentProgress, profiles, videos, syncQueue, nextId, writes,
                 lastOp, remoteVars, user, failures, triggers, histVars>>

NextSteps ==
  \/ Tick
  \/ \E t \in {"B"} : BeginSaveCourse(t)
  \/ \E c \in DOMAIN courses : BeginDeleteCourse(c)
  \/ WriteStep
  \/ WriteReturn
  \/ CrashInWrite
  \/ Trigger("login")
  \/ PsqCall("login", TRUE)
  \/ PsqDelete("login")
  \/ SdFetch("login", {})
  \/ SdApply("login")
  \/ Return("login")

SpecSteps == (Init \/ InitSynced) /\ [][NextSteps]_vars

\* ---------------------------------------------------------------- properties

\* the items a step appended to the queue
Added == SubSeq(syncQueue', Len(syncQueue) + 1, Len(syncQueue'))

Appends == Len(syncQueue') >= Len(syncQueue) /\ SubSeq(syncQueue', 1, Len(syncQueue)) = syncQueue

\* a domain write named name returned in this step
Returned(name) == writes' = writes + 1 /\ lastOp'.op = name

\* the students whose record lists course c
WithProgressIn(c) ==
  {st \in DOMAIN studentProgress :
     \E i \in 1..Len(studentProgress[st].courseProgress) :
       studentProgress[st].courseProgress[i].courseId = c}

TypesOf(items) == [i \in 1..Len(items) |-> items[i].type]

\* course c has a SAVE_COURSE item in the queue
HasQueuedSave(c) ==
  \E i \in 1..Len(syncQueue) :
    syncQueue[i].type = "SAVE_COURSE" /\ syncQueue[i].payload.id = c

InSyncDown(h) == run[h].pc \in {"fetch", "apply"}

\* the syncDown of handler h returned without an error
SyncDownSucceeded(h) ==
  /\ run[h].pc = "done"
  /\ Len(run[h].log) > 0
  /\ run[h].log[Len(run[h].log)] = "sd:end"
  /\ \A i \in 1..Len(run[h].log) : run[h].log[i] # "sd:failed"

\* C1: every step of a syncDown leaves each local course that has a SAVE_COURSE item in
\* the queue and is absent from the remote courses the call fetched in the local
\* courses, its record and embedded lessons unchanged, whatever else was fetched.
C1_PendingCourseSurvives ==
  [][\A h \in Handlers :
       InSyncDown(h) /\ run'[h] # run[h] =>
         \A c \in DOMAIN courses :
           HasQueuedSave(c) /\ c \notin DOMAIN run[h].fetched.courses =>
             c \in DOMAIN courses' /\ courses'[c] = courses[c]
    ]_vars

\* a syncDown that pulled a remote course returned; a local course with a lesson, whose
\* SAVE_COURSE failed in the replay before it, is still there and not among the fetched
C1_Witness ==
  \E h \in Handlers :
    /\ SyncDownSucceeded(h)
    /\ DOMAIN run[h].fetched.courses # {}
    /\ DOMAIN run[h].fetched.courses \subseteq DOMAIN courses
    /\ \E c \in DOMAIN courses :
         /\ HasQueuedSave(c)
         /\ c \notin DOMAIN run[h].fetched.courses
         /\ Len(courses[c].lessons) = 1
         /\ \E i \in 1..Len(run[h].snap) :
              run[h].snap[i].type = "SAVE_COURSE" /\ run[h].snap[i].payload.id = c

\* C2: in every handler run, login or online, syncDown starts only after the
\* processSyncQueue of that run has returned, and no processSyncQueue of the run starts
\* or is under way once its syncDown has started.
C2_ReplayBeforeReconcile ==
  \A h \in Handlers :
    LET log == run[h].log
    IN /\ \A i \in 1..Len(log) :
            log[i] = "sd:start" =>
              /\ \E j \in 1..(i - 1) : log[j] = "psq:end"
              /\ \A j \in (i + 1)..Len(log) : log[j] \notin {"psq:start", "psq:end"}
       /\ InSyncDown(h) =>
            /\ \E j \in 1..Len(log) : log[j] = "psq:end"
            /\ Len(run[h].attempted) = Len(run[h].snap)
       /\ run[h].pc \in {"call", "del"} => \A i \in 1..Len(log) : log[i] # "sd:start"

\* the syncDown of a login has started after a replay that attempted two items
C2_Witness ==
  /\ run["login"].pc = "apply"
  /\ run["login"].log = <<"psq:start", "psq:end", "sd:start">>
  /\ Len(run["login"].attempted) = 2

\* the remote calls a queue item of a type needs
RequiredCalls(type) ==
  CASE type = "UPDATE_PROGRESS" -> <<"student_progress.upsert">>
    [] type = "SAVE_COURSE" -> <<"courses.upsert">>
    [] type = "SAVE_LESSON" -> <<"lessons.upsert">>
    [] type = "DELETE_LESSON" -> <<"lessons.delete">>
    [] type = "DELETE_COURSE" -> <<"lessons.deleteByCourse", "courses.delete",
                                   "student_progress.select", "progress.upsertMany">>

OpsOf(made) == [k \in 1..Len(made) |-> made[k].op]

AllOk(made) == \A k \in 1..Len(made) : made[k].ok

\* made are all the calls the item needs: the progress upsert of DELETE_COURSE is
\* needed when the select found rows that list the course
Complete(item, made) ==
  \/ OpsOf(made) = RequiredCalls(item.type)
  \/ /\ item.type = "DELETE_COURSE"
     /\ OpsOf(made) = SubSeq(RequiredCalls(item.type), 1, 3)
     /\ DOMAIN made[3].data = {}

\* C3: an item leaves the queue only in the step of a processSyncQueue run that made
\* every remote call the item needs and got no error from any of them; the items that
\* remain keep their type, payload and timestamp; a call that returns an error leaves
\* the queue as it is and is the last call the run makes for that item.
C3_RemovedOnlyAfterSuccess ==
  [][/\ \A id \in QueueIds(syncQueue) \ QueueIds(syncQueue') :
          \E h \in Handlers :
            LET r == run[h]
            IN /\ r.pc = "del"
               /\ r.snap[r.pos].id = id
               /\ r.calls.pos = r.pos
               /\ AllOk(r.calls.made)
               /\ Complete(r.snap[r.pos], r.calls.made)
               /\ run'[h] # r
               /\ syncQueue' = SelectSeq(syncQueue, LAMBDA x : x.id # id)
     /\ \A i \in 1..Len(syncQueue) :
          syncQueue[i].id \in QueueIds(syncQueue') =>
            \E j \in 1..Len(syncQueue') : syncQueue'[j] = syncQueue[i]
     /\ \A h \in Handlers :
          LET made == run'[h].calls.made
          IN /\ \A k \in 1..(Len(made) - 1) : made[k].ok
             /\ \/ made = <<>>
                \/ OpsOf(made) = SubSeq(RequiredCalls(run'[h].snap[run'[h].calls.pos].type),
                                         1, Len(made))
             /\ run'[h].calls # run[h].calls /\ made # <<>> /\ ~made[Len(made)].ok =>
                  /\ syncQueue' = syncQueue
                  /\ run'[h].pc \notin {"del"}
                  /\ run'[h].pos = run[h].pos + 1
    ]_vars

\* a DELETE_COURSE item is out of the queue after its four calls returned without an
\* error, and the first item of the same run, whose call failed, is still queued
C3_Witness ==
  \E h \in Handlers :
    LET r == run[h]
    IN /\ r.calls.pos > 1
       /\ r.calls.pos <= Len(r.snap)
       /\ r.snap[r.calls.pos].type = "DELETE_COURSE"
       /\ Len(r.calls.made) = 4
       /\ AllOk(r.calls.made)
       /\ r.snap[r.calls.pos].id \notin QueueIds(syncQueue)
       /\ r.snap[1].id \in QueueIds(syncQueue)
       /\ r.pos > r.calls.pos

SnapIds(h) == [i \in 1..Len(run[h].snap) |-> run[h].snap[i].id]

\* C4: in every processSyncQueue run the items attempted so far are the first items of
\* the snapshot read at the start, each once and with none left out, whether or not
\* their calls failed; the run goes on while items are left and has returned once the
\* last item was attempted and dealt with.
C4_EveryItemAttemptedOnce ==
  \A h \in Handlers :
    LET r == run[h]
        n == Len(r.attempted)
    IN /\ n <= Len(r.snap)
       /\ r.attempted = SubSeq(SnapIds(h), 1, n)
       /\ \A i, j \in 1..n : i # j => r.attempted[i] # r.attempted[j]
       /\ r.pc = "call" => r.pos <= Len(r.snap) /\ n \in {r.pos - 1, r.pos}
       /\ r.pc = "del" => r.pos <= Len(r.snap) /\ n = r.pos
       /\ r.pc \in {"fetch", "apply", "done"} =>
            n = Len(r.snap) /\ (r.snap # <<>> => r.pos = Len(r.snap) + 1)

\* a run has returned after three items: the first failed and is still queued, the two
\* after it were replayed and removed
C4_Witness ==
  \E h \in Handlers :
    /\ run[h].pc \in {"fetch", "done"}
    /\ Len(run[h].snap) = 3
    /\ Len(run[h].attempted) = 3
    /\ run[h].snap[1].id \in QueueIds(syncQueue)
    /\ run[h].snap[2].id \notin QueueIds(syncQueue)
    /\ run[h].snap[3].id \notin QueueIds(syncQueue)

\* C5: a processSyncQueue run attempts the items of its snapshot in the order they
\* were enqueued (the order of their auto-increment keys), also when they carry the
\* same timestamp: an item is attempted only after every item enqueued before it.
C5_FifoOrder ==
  \A h \in Handlers :
    LET r == run[h]
    IN /\ \A i, j \in 1..Len(r.attempted) : i < j => r.attempted[i] < r.attempted[j]
       /\ \A i \in 1..Len(r.attempted) :
            \A k \in 1..Len(r.snap) :
              r.snap[k].id < r.attempted[i] =>
                \E j \in 1..(i - 1) : r.attempted[j] = r.snap[k].id

\* the lesson delete and the course delete of one cascade, which have one timestamp,
\* were both attempted
C5_Witness ==
  \E h \in Handlers :
    \E i, j \in 1..Len(run[h].snap) :
      /\ i < j
      /\ run[h].snap[i].timestamp = run[h].snap[j].timestamp
      /\ run[h].snap[i].type = "DELETE_LESSON"
      /\ run[h].snap[j].type = "DELETE_COURSE"
      /\ j <= Len(run[h].attempted)

Failed(r) == \E i \in 1..Len(r.log) : r.log[i] = "sd:failed"

\* C6: a step of a syncDown in which a select has returned an error, or in which the
\* call fails, leaves the local courses, studentProgress and profiles as they were; a
\* syncDown writes them only when all four selects returned without an error.
C6_AllOrNothing ==
  [][\A h \in Handlers :
       InSyncDown(h) /\ run'[h] # run[h] /\ (run'[h].failed # {} \/ Failed(run'[h])) =>
         UNCHANGED <<courses, studentProgress, profiles>>
    ]_vars

\* the lessons select alone returned an error: the syncDown has returned and the local
\* tables, which differ from the remote ones, have none of the three fetched tables
C6_Witness ==
  \E h \in Handlers :
    /\ run[h].pc = "done"
    /\ run[h].failed = {"lessons"}
    /\ Failed(run[h])
    /\ DOMAIN rCourses # {} /\ DOMAIN rProgress # {} /\ DOMAIN rProfiles # {}
    /\ courses = Empty /\ studentProgress = Empty /\ profiles = Empty

\* C7 as stated: saveCourse, saveLesson and updateQuizProgress each append exactly one
\* queue item, of their own type.
C7_OneItemPerWrite ==
  [][/\ Returned("saveCourse") => Appends /\ TypesOf(Added) = <<"SAVE_COURSE">>
     /\ Returned("saveLesson") => Appends /\ TypesOf(Added) = <<"SAVE_LESSON">>
     /\ Returned("updateQuizProgress") => Appends /\ TypesOf(Added) = <<"UPDATE_PROGRESS">>
    ]_vars

\* C7 amended: saveCourse appends exactly one SAVE_COURSE, saveLesson of an existing
\* lesson id exactly one SAVE_LESSON, updateQuizProgress exactly one UPDATE_PROGRESS;
\* saveLesson of a new lesson appends one SAVE_LESSON and then one UPDATE_PROGRESS for
\* every student whose record lists the course.
C7_ItemsPerWrite ==
  [][/\ Returned("saveCourse") => Appends /\ TypesOf(Added) = <<"SAVE_COURSE">>
     /\ Returned("saveLesson") /\ lastOp'.isUpdate =>
          Appends /\ TypesOf(Added) = <<"SAVE_LESSON">>
     /\ Returned("saveLesson") /\ ~lastOp'.isUpdate =>
          /\ Appends
          /\ Len(Added) = 1 + Cardinality(WithProgressIn(lastOp'.c))
          /\ Added[1].type = "SAVE_LESSON"
          /\ \A i \in 2..Len(Added) : Added[i].type = "UPDATE_PROGRESS"
          /\ {Added[i].payload.studentId : i \in 2..Len(Added)} = WithProgressIn(lastOp'.c)
     /\ Returned("updateQuizProgress") => Appends /\ TypesOf(Added) = <<"UPDATE_PROGRESS">>
    ]_vars

\* a new lesson was saved in a course two students have progress in: three items
C7_Witness ==
  /\ lastOp.op = "saveLesson" /\ lastOp.ok /\ ~lastOp.isUpdate
  /\ writes = 1
  /\ TypesOf(syncQueue) = <<"SAVE_LESSON", "UPDATE_PROGRESS", "UPDATE_PROGRESS">>

\* C8: deleteCourse of a local course with N lessons, listed by M students' records,
\* appends N DELETE_LESSON (one per lesson, in order), then one DELETE_COURSE, then M
\* UPDATE_PROGRESS (one per such student); on an id that is not local it appends
\* nothing and changes nothing.
C8_DeleteCourseCascade ==
  [][Returned("deleteCourse") =>
       LET c == lastOp'.c
       IN IF c \in DOMAIN courses
          THEN LET n == Len(courses[c].lessons)
                   m == Cardinality(WithProgressIn(c))
               IN /\ Appends
                  /\ Len(Added) = n + 1 + m
                  /\ \A i \in 1..n : /\ Added[i].type = "DELETE_LESSON"
                                      /\ Added[i].payload.id = courses[c].lessons[i].id
                  /\ Added[n + 1].type = "DELETE_COURSE"
                  /\ Added[n + 1].payload.id = c
                  /\ \A i \in (n + 2)..(n + 1 + m) : Added[i].type = "UPDATE_PROGRESS"
                  /\ {Added[i].payload.studentId : i \in (n + 2)..(n + 1 + m)}
                       = WithProgressIn(c)
          ELSE UNCHANGED <<courses, studentProgress, profiles, videos, syncQueue>>
    ]_vars

\* a course with two lessons and two students was deleted
C8_Witness ==
  /\ lastOp.op = "deleteCourse"
  /\ writes = 1
  /\ TypesOf(syncQueue) = <<"DELETE_LESSON", "DELETE_LESSON", "DELETE_COURSE",
                            "UPDATE_PROGRESS", "UPDATE_PROGRESS">>

\* C9: when the last write was deleteCourse(c) of a local course, the queue is empty
\* and no handler is running, the remote tables hold no course c, no lesson of c and no
\* student_progress row that lists c.
C9_DeletedCourseGoneRemotely ==
  ( /\ lastOp.op = "deleteCourse"
    /\ lastOp.c # NoSuchId
    /\ syncQueue = <<>>
    /\ \A h \in Handlers : run[h].pc = "idle" )
  => /\ lastOp.c \notin DOMAIN rCourses
     /\ \A l \in DOMAIN rLessons : rLessons[l].course_id # lastOp.c
     /\ \A st \in DOMAIN rProgress :
          \A i \in 1..Len(rProgress[st].course_progress) :
            rProgress[st].course_progress[i].courseId # lastOp.c

Positive(lessonStatus) == {j \in 1..Len(lessonStatus) : lessonStatus[j].finalScore > 0}

\* C10: in every local record, every CourseProgress has completedLessons = the number
\* of its LessonStatus entries with finalScore > 0 and score = the mean of those
\* entries' finalScore (0 when there are none).
C10_AggregateConsistency ==
  \A st \in DOMAIN studentProgress :
    \A i \in 1..Len(studentProgress[st].courseProgress) :
      LET cp == studentProgress[st].courseProgress[i]
          done == Positive(cp.lessonStatus)
          total == SumSeq([j \in 1..Len(cp.lessonStatus) |->
                             IF j \in done THEN cp.lessonStatus[j].finalScore ELSE 0])
      IN /\ cp.completedLessons = Cardinality(done)
         /\ IF done = {} THEN cp.score = ZeroR
            ELSE cp.score[1] * Cardinality(done) = total * cp.score[2]

\* a quiz attempt raised a lesson's score and a deleteLesson then removed the course's
\* other LessonStatus: the course is left with the mean of the one remaining score
C10_Witness ==
  /\ lastOp.op = "deleteLesson" /\ lastOp.ok
  /\ writes = 2
  /\ \E st \in DOMAIN studentProgress :
       \E i \in 1..Len(studentProgress[st].courseProgress) :
         LET cp == studentProgress[st].courseProgress[i]
         IN /\ cp.courseId = lastOp.c
            /\ Len(cp.lessonStatus) = 1
            /\ cp.lessonStatus[1].finalScore = 60
            /\ cp.completedLessons = 1
            /\ cp.score = <<60, 1>>

\* the LessonStatus of lesson l in student st's progress in course c: a sequence of one
\* record, or the empty sequence when there is none
LessonStatusOf(progress, st, c, l) ==
  IF st \notin DOMAIN progress THEN <<>>
  ELSE LET cps == SelectSeq(progress[st].courseProgress, LAMBDA cp : cp.courseId = c)
       IN IF cps = <<>> THEN <<>>
          ELSE SelectSeq(cps[1].lessonStatus, LAMBDA ls : ls.lessonId = l)

\* C11: every updateQuizProgress call leaves the LessonStatus of its student and lesson
\* with attempts one higher than before (1 on the first call) and with finalScore equal
\* to the larger of the previous finalScore and the new score (the new score on the
\* first call); finalScore never decreases.
C11_BestScoreAndAttempts ==
  [][Returned("updateQuizProgress") =>
       LET o == lastOp'
           before == LessonStatusOf(studentProgress, o.s, o.c, o.l)
           after == LessonStatusOf(studentProgress', o.s, o.c, o.l)
       IN /\ Len(after) = 1
          /\ IF before = <<>>
             THEN after[1].attempts = 1 /\ after[1].finalScore = o.score
             ELSE /\ after[1].attempts = before[1].attempts + 1
                  /\ after[1].finalScore >= before[1].finalScore
                  /\ after[1].finalScore >= o.score
                  /\ after[1].finalScore \in {before[1].finalScore, o.score}
    ]_vars

\* an attempt with the lower score 60 on a lesson attempted once with 80: two
\* attempts, finalScore still 80
C11_Witness ==
  /\ lastOp.op = "updateQuizProgress"
  /\ lastOp.score = 60
  /\ writes = 2
  /\ Len(syncQueue) = 2
  /\ syncQueue[1].type = "UPDATE_PROGRESS"
  /\ LET ls == LessonStatusOf(studentProgress, lastOp.s, lastOp.c, lastOp.l)
     IN ls = <<[lessonId |-> lastOp.l, attempts |-> 2, finalScore |-> 80]>>

Remote == <<rCourses, rLessons, rProgress, rProfiles>>

Idle == \A h \in Handlers : run[h].pc = "idle"

\* C12: when an item whose remote calls had all succeeded, and whose run was cut off
\* before the queue delete, has been replayed a second time, the remote tables are what
\* they were after the first replay; this for every item type.
C12_ReplayIdempotent ==
  \A h \in Handlers :
    ( /\ replayed # NoCrash
      /\ run[h].pc = "del"
      /\ run[h].snap[run[h].pos].id = replayed.id )
    => Remote = replayed.remote

\* a DELETE_COURSE whose first replay rewrote the progress rows of two students has
\* been replayed again, and the later items of the queue are still to come
C12_Witness ==
  LET r == run["online"]
  IN /\ replayed # NoCrash
     /\ r.pc = "del"
     /\ r.snap[r.pos].id = replayed.id
     /\ r.snap[r.pos].type = "DELETE_COURSE"
     /\ Len(r.calls.made) = 3
     /\ Len(r.snap) > r.pos
     /\ DOMAIN rProgress = Students
     /\ DOMAIN rCourses = {}

\* C13: once a queue filled by local writes has been replayed, with no call failing,
\* and is empty, the remote courses, lessons and student_progress are what they would
\* be had each write been replayed on its own right after it was made.
C13_DelayedReplaySameRemote ==
  (syncQueue = <<>> /\ Idle) => Remote = eager

\* two writes in an empty replica over an empty remote, a course and a lesson in it,
\* replayed by one run after the second write
C13_Witness ==
  /\ syncQueue = <<>>
  /\ Idle
  /\ writes = 2
  /\ triggers = 1
  /\ replayed = NoCrash
  /\ lastOp.op = "saveLesson"
  /\ DOMAIN rCourses = {lastOp.c}
  /\ \E l \in DOMAIN rLessons : rLessons[l].course_id = lastOp.c
  /\ DOMAIN rProgress = {}

\* the local effect of the write that queued item is in place in the replica <<cs, sp>>:
\* the saved course or lesson is there, the progress record holds what was written,
\* the deleted lesson or course is gone
InEffect(item, cs, sp) ==
  CASE item.type = "SAVE_COURSE" -> item.payload.id \in DOMAIN cs
    [] item.type = "SAVE_LESSON" ->
         /\ item.payload.course_id \in DOMAIN cs
         /\ \E i \in 1..Len(cs[item.payload.course_id].lessons) :
              cs[item.payload.course_id].lessons[i].id = item.payload.id
    [] item.type = "UPDATE_PROGRESS" ->
         /\ item.payload.studentId \in DOMAIN sp
         /\ sp[item.payload.studentId].courseProgress = item.payload.courseProgress
    [] item.type = "DELETE_LESSON" ->
         \A c \in DOMAIN cs : \A i \in 1..Len(cs[c].lessons) :
           cs[c].lessons[i].id # item.payload.id
    [] item.type = "DELETE_COURSE" -> item.payload.id \notin DOMAIN cs

\* C14: the transaction of a syncDown leaves in effect, in the local replica, every
\* queued mutation that was in effect before it: SAVE_COURSE, SAVE_LESSON,
\* UPDATE_PROGRESS, DELETE_LESSON and DELETE_COURSE alike.
C14_QueuedMutationSurvives ==
  [][\A h \in Handlers :
       run[h].pc = "apply" /\ run'[h] # run[h] =>
         \A i \in 1..Len(syncQueue) :
           InEffect(syncQueue[i], courses, studentProgress) =>
             InEffect(syncQueue[i], courses', studentProgress')
    ]_vars

\* C15: every local CourseProgress of a course that is in the local replica has
\* totalLessons equal to the number of lessons embedded in that course, after any
\* sequence of saveLesson, deleteLesson and updateQuizProgress calls (and of the other
\* writes).
C15_TotalLessonsTracksCourse ==
  \A st \in DOMAIN studentProgress :
    \A i \in 1..Len(studentProgress[st].courseProgress) :
      LET cp == studentProgress[st].courseProgress[i]
      IN cp.courseId \in DOMAIN courses =>
           cp.totalLessons = Len(courses[cp.courseId].lessons)

\* a lesson was added to a course of two lessons in which both students have progress,
\* and then one of the two older lessons was deleted
C15_Witness ==
  /\ writes = 2
  /\ lastOp.op = "deleteLesson"
  /\ lastOp.c \in DOMAIN courses
  /\ Len(courses[lastOp.c].lessons) = 2
  /\ \E i \in 1..2 : courses[lastOp.c].lessons[i].id <= MaxClock
  /\ WithProgressIn(lastOp.c) = Students
  /\ \A st \in Students :
       \E i \in 1..Len(studentProgress[st].courseProgress) :
         /\ studentProgress[st].courseProgress[i].courseId = lastOp.c
         /\ studentProgress[st].courseProgress[i].totalLessons = 2

DatesOf(hist) == [i \in 1..Len(hist) |-> hist[i].date]

OneEntryPerDate(hist) ==
  \A i, j \in 1..Len(hist) : hist[i].date = hist[j].date => i = j

\* C16: the scoreHistory of every local StudentProgress record has at most one entry per
\* calendar date, and a write made on a date the history already has an entry for
\* leaves the dates of the history as they were: it may change the score of the entry
\* and adds none.
C16_OneEntryPerDate ==
  /\ [](\A st \in DOMAIN studentProgress : OneEntryPerDate(studentProgress[st].scoreHistory))
  /\ [][\A st \in DOMAIN studentProgress \cap DOMAIN studentProgress' :
          (\E i \in 1..Len(studentProgress[st].scoreHistory) :
             studentProgress[st].scoreHistory[i].date = Today)
          => DatesOf(studentProgress'[st].scoreHistory)
               = DatesOf(studentProgress[st].scoreHistory)
       ]_vars

\* a student whose pulled history had an entry for the day took a quiz that day, which
\* overwrote the score of the entry, and another the day after, which added an entry
C16_Witness ==
  /\ writes = 2
  /\ lastOp.op = "updateQuizProgress"
  /\ \E st \in DOMAIN studentProgress :
       LET hist == studentProgress[st].scoreHistory
       IN /\ Len(hist) = 2
          /\ hist[1].date = DateOf(1)
          /\ hist[2].date = DateOf(1) + 1
          /\ hist[1].score = <<70, 1>>
          /\ hist[2].score = <<80, 1>>

\* the domain write named name was called in this step, and returned or threw
Called(name) == (writes' = writes + 1 \/ lastOp' # lastOp) /\ lastOp'.op = name

\* the call of this step names a course, or a lesson to update, that the local replica
\* does not have
IntegrityError ==
  \/ Called("saveLesson") /\ lastOp'.c \notin DOMAIN courses
  \/ /\ Called("saveLesson")
     /\ lastOp'.isUpdate
     /\ lastOp'.c \in DOMAIN courses
     /\ \A i \in 1..Len(courses[lastOp'.c].lessons) :
          courses[lastOp'.c].lessons[i].id # lastOp'.l
  \/ Called("saveCourse") /\ lastOp'.isUpdate /\ lastOp'.c \notin DOMAIN courses

\* C17: a saveLesson for a course that is not in the local replica, a saveLesson that
\* updates a lesson the course does not list, and a saveCourse that updates a course
\* that is not in the local replica each raise an error and leave the courses, the
\* studentProgress and the sync queue unchanged.
C17_IntegrityErrorsRaised ==
  [][IntegrityError =>
       ~lastOp'.ok /\ UNCHANGED <<courses, studentProgress, syncQueue>>
    ]_vars

\* the syncDown of handler h has ended
SyncDownEnded(h) ==
  Len(run[h].log) > 0 /\ run[h].log[Len(run[h].log)] = "sd:end"

\* C18: a syncDown that failed, by a fetch error or by a failed transaction, settles
\* for its caller otherwise than one that succeeded: its promise is rejected.
C18_FailureSurfaced ==
  \A h \in Handlers :
    SyncDownEnded(h) =>
      (SyncDownSettles(Failed(run[h])) = "rejected" <=> Failed(run[h]))

\* the run of handler h has replayed the queue and then reconciled
ReplayedThenReconciled(h) ==
  \E i, j \in 1..Len(run[h].log) :
    i < j /\ run[h].log[i] = "psq:end" /\ run[h].log[j] = "sd:end"

\* C19: every handler run, whether started by a login or by an 'online' event, has run
\* processSyncQueue and after it syncDown by the time it ends; so has, in particular,
\* the run of an 'online' event that fired while a user was logged in.
C19_EveryTriggerReplaysAndReconciles ==
  \A h \in Handlers : run[h].pc = "done" => ReplayedThenReconciled(h)

\* the processSyncQueue of handler h is in progress
InProcessSyncQueue(h) == run[h].pc \in {"call", "del"}

\* C20: in no reachable state is a syncDown in progress while a processSyncQueue is in
\* progress, whichever handlers started them.
C20_UplinkDownlinkSerialized ==
  \A h1, h2 \in Handlers : ~(InSyncDown(h1) /\ InProcessSyncQueue(h2))

\* some table operations of the write in flight are made and some are still to come
Partial == inflight.made > 0 /\ inflight.steps # <<>>

\* handler h reads the local tables in this step: its processSyncQueue takes the queue
\* snapshot, or its syncDown reads the local keys and the queue
ReadsLocal(h) ==
  \/ run[h].pc = "idle" /\ run'[h].pc # "idle"
  \/ run[h].pc = "apply" /\ run'[h] # run[h]

\* C21: while a domain write has made some of its table operations and not the others
\* (its change to courses or studentProgress without its queue items, or its queue
\* items without its change), no processSyncQueue or syncDown reads the local tables
\* and no crash leaves them so.
C21_WritesAtomic ==
  [][Partial =>
       /\ \A h \in Handlers : ~ReadsLocal(h)
       /\ inflight'.made >= inflight.made
    ]_vars

\* the row a queue item writes or deletes, and the course it belongs to (0: none)
KeyOf(item) ==
  CASE item.type = "UPDATE_PROGRESS" -> <<"student", item.payload.studentId>>
    [] item.type \in {"SAVE_COURSE", "DELETE_COURSE"} -> <<"course", item.payload.id>>
    [] OTHER -> <<"lesson", item.payload.id>>

CourseOf(item) ==
  CASE item.type \in {"SAVE_COURSE", "DELETE_COURSE"} -> item.payload.id
    [] item.type = "SAVE_LESSON" -> item.payload.course_id
    [] OTHER -> 0

\* b depends on or supersedes a: the same course, lesson or student row, or a
\* lesson or a deletion that refers to the course of a
DependsOn(b, a) ==
  \/ KeyOf(b) = KeyOf(a)
  \/ CourseOf(a) # 0 /\ CourseOf(b) = CourseOf(a)

\* C22: the remote write of a queued mutation a never succeeds after the remote write
\* of a mutation b that was enqueued after a and depends on or supersedes it has been
\* applied, whatever calls fail and however often the replay is triggered again.
C22_ReplayKeepsEnqueueOrder ==
  [][\A a \in applied' \ applied :
       \A b \in applied : ~(b.id > a.id /\ DependsOn(b, a))
    ]_vars

\* the keys db.syncQueue can hand out: a write on a replica that started empty adds at
\* most three items
QueueKeys == 1..(3 * MaxWrites)

\* C23: a run of processSyncQueue takes every queued item, so an item that failed in
\* one run is attempted again in the next; and if the handler keeps being triggered
\* and remote calls end up succeeding, every item that is enqueued is eventually
\* removed from the queue.
C23_QueueHealsByRetry ==
  /\ [][\A h \in Handlers :
          run[h].pc = "idle" /\ run'[h].pc # "idle" =>
            {run'[h].snap[i].id : i \in 1..Len(run'[h].snap)} = QueueIds(syncQueue)
       ]_vars
  /\ \A id \in QueueKeys :
       (id \in QueueIds(syncQueue)) ~> (id \notin QueueIds(syncQueue))

\* a remote call failed, the handler was triggered again, and every item that was
\* enqueued has been sent and removed
C23_Witness ==
  /\ failures = 1
  /\ triggers = 2
  /\ writes = 2
  /\ nextId > 2
  /\ syncQueue = <<>>
  /\ {a.id : a \in applied} = 1..(nextId - 1)
  /\ Idle

\* the transaction of the syncDown of handler h commits in this step
SyncDownCommits(h) ==
  run[h].pc = "apply" /\ run'[h] # run[h] /\ ~Failed(run'[h])

\* C24: when the transaction of a syncDown commits, the local course ids are the
\* fetched ones and the local ones that have a queued SAVE_COURSE, the local progress
\* and profile ids are the fetched ones, and every fetched row has replaced the local
\* row of its id, a course carrying exactly the fetched lessons of its course_id.
C24_SyncDownResult ==
  [][\A h \in Handlers :
       SyncDownCommits(h) =>
         LET f == run[h].fetched
         IN /\ DOMAIN courses' =
                 DOMAIN f.courses \cup {c \in DOMAIN courses : HasQueuedSave(c)}
            /\ DOMAIN studentProgress' = DOMAIN f.progress
            /\ DOMAIN profiles' = DOMAIN f.profiles
            /\ \A c \in DOMAIN f.courses :
                 /\ courses'[c].id = c
                 /\ courses'[c].title = f.courses[c].title
                 /\ courses'[c].authorId = f.courses[c].author_id
                 /\ {courses'[c].lessons[i].id : i \in 1..Len(courses'[c].lessons)}
                      = {l \in DOMAIN f.lessons : f.lessons[l].course_id = c}
                 /\ Len(courses'[c].lessons)
                      = Cardinality({l \in DOMAIN f.lessons : f.lessons[l].course_id = c})
                 /\ \A i \in 1..Len(courses'[c].lessons) :
                      LET l == courses'[c].lessons[i]
                      IN /\ l.title = f.lessons[l.id].title
                         /\ l.videoUrl = f.lessons[l.id].video_url
            /\ \A st \in DOMAIN f.progress :
                 /\ studentProgress'[st].studentId = st
                 /\ studentProgress'[st].studentName = f.progress[st].student_name
                 /\ studentProgress'[st].scoreHistory = f.progress[st].score_history
                 /\ studentProgress'[st].courseProgress
                      = SelectSeq(f.progress[st].course_progress,
                                  LAMBDA cp : cp.courseId \in DOMAIN f.courses)
            /\ \A p \in DOMAIN f.profiles : profiles'[p] = f.profiles[p]
    ]_vars

\* a syncDown has pulled a course with its lesson, a progress row and a profile into a
\* replica that held only a course created locally, whose SAVE_COURSE is still queued
C24_Witness ==
  \E h \in Handlers :
    /\ SyncDownSucceeded(h)
    /\ lastOp.op = "saveCourse"
    /\ ~lastOp.isUpdate
    /\ HasQueuedSave(lastOp.c)
    /\ DOMAIN run[h].fetched.courses = {Foreign}
    /\ DOMAIN courses = {Foreign, lastOp.c}
    /\ Len(courses[Foreign].lessons) = 1
    /\ DOMAIN studentProgress = {1}
    /\ DOMAIN profiles = {1}

\* C25: no StudentProgress record that a committing syncDown writes holds a
\* CourseProgress of a course that is not among the courses the same syncDown fetched,
\* whatever the fetched student_progress rows hold.
C25_NoProgressForUnfetchedCourse ==
  [][\A h \in Handlers :
       SyncDownCommits(h) =>
         \A st \in DOMAIN run[h].fetched.progress :
           \A i \in 1..Len(studentProgress'[st].courseProgress) :
             studentProgress'[st].courseProgress[i].courseId
               \in DOMAIN run[h].fetched.courses
    ]_vars

\* a syncDown on a fresh replica has written a record from a row that lists two
\* courses, one of which is no longer among the remote courses
C25_Witness ==
  \E h \in Handlers :
    /\ SyncDownSucceeded(h)
    /\ writes = 0
    /\ 1 \in DOMAIN run[h].fetched.progress
    /\ Len(run[h].fetched.progress[1].course_progress) = 2
    /\ 1 \in DOMAIN studentProgress
    /\ Len(studentProgress[1].courseProgress) = 1
    /\ studentProgress[1].courseProgress[1].courseId = Foreign

\* no local record lists course c / a status of lesson l under course c
NoProgressIn(progress, c) ==
  \A st \in DOMAIN progress : \A i \in 1..Len(progress[st].courseProgress) :
    progress[st].courseProgress[i].courseId # c

NoStatusOf(progress, c, l) ==
  \A st \in DOMAIN progress : \A i \in 1..Len(progress[st].courseProgress) :
    LET cp == progress[st].courseProgress[i]
    IN cp.courseId = c => \A j \in 1..Len(cp.lessonStatus) : cp.lessonStatus[j].lessonId # l

ScoresOf(sp) ==
  [i \in 1..Len(sp.courseProgress) |->
     <<sp.courseProgress[i].courseId, sp.courseProgress[i].score>>]

\* this step gives student st course scores other than the ones it had
ScoresChange(st) ==
  /\ st \in DOMAIN studentProgress'
  /\ \/ st \notin DOMAIN studentProgress
     \/ ScoresOf(studentProgress'[st]) # ScoresOf(studentProgress[st])

\* C27: after every updateQuizProgress, deleteLesson and deleteCourse that changes the
\* course scores of a student, the scoreHistory of that student has an entry for the
\* day of the call whose score is the mean of the student's course scores above 0
\* (0 when there are none).
C27_HistoryHasTodaysMean ==
  [][(Returned("updateQuizProgress") \/ Returned("deleteLesson") \/ Returned("deleteCourse"))
       => \A st \in Students :
            ScoresChange(st) =>
              \E i \in 1..Len(studentProgress'[st].scoreHistory) :
                /\ studentProgress'[st].scoreHistory[i].date = Today
                /\ studentProgress'[st].scoreHistory[i].score
                     = OverallAverage(studentProgress'[st].courseProgress)
    ]_vars

\* the lessons embedded in the courses cs, by id
LessonsIn(cs) ==
  UNION {{cs[c].lessons[i] : i \in 1..Len(cs[c].lessons)} : c \in DOMAIN cs}

LessonIdsIn(cs) == {l.id : l \in LessonsIn(cs)}

\* C28: a step after which a lesson of the local replica is gone, deleted by
\* deleteLesson or with its course by deleteCourse, or after which a lesson that had
\* an offline video has a URL video, leaves no blob under the id of that lesson in the
\* videos table.
C28_NoVideoWithoutLesson ==
  [][\A old \in LessonsIn(courses) :
       ( \/ old.id \notin LessonIdsIn(courses')
         \/ /\ old.hasOfflineVideo
            /\ \A new \in LessonsIn(courses') :
                 new.id = old.id => ~new.hasOfflineVideo /\ new.videoUrl # "none" )
       => old.id \notin videos'
    ]_vars

\* the remote rows of the lessons embedded in the local course c
LocalLessonRows(c) ==
  {LessonRow(LessonPayload(courses[c].lessons[i], c)) : i \in 1..Len(courses[c].lessons)}

\* the remote courses, lessons and student_progress rows are the local replica's
Converged ==
  /\ DOMAIN rCourses = DOMAIN courses
  /\ \A c \in DOMAIN courses : rCourses[c] = CourseRow(courses[c])
  /\ {rLessons[l] : l \in DOMAIN rLessons} = UNION {LocalLessonRows(c) : c \in DOMAIN courses}
  /\ DOMAIN rProgress = DOMAIN studentProgress
  /\ \A st \in DOMAIN studentProgress : rProgress[st] = ProgressRow(studentProgress[st])

\* C29: for a client that started with its replica equal to the remote, once its
\* writes have been replayed with every remote call succeeding and the queue is empty,
\* the remote courses, lessons (by course, whatever their order and hasOfflineVideo)
\* and student_progress rows are those of the local replica.
C29_SingleClientConverges ==
  (syncQueue = <<>> /\ Idle) => Converged

\* C30: whenever the queue is empty and no remote call has failed, every remote
\* course, lesson and student_progress row is the one the last-enqueued mutation of
\* its id leaves (and is absent if that mutation deletes it), also when the replay runs
\* of the login and the 'online' handler overlapped, each on its own queue snapshot.
C30_OverlapKeepsLastWrite ==
  (syncQueue = <<>> /\ failures = 0) =>
    \A k \in 1..3 :
      /\ DOMAIN Remote[k] = DOMAIN eager[k]
      /\ \A id \in DOMAIN eager[k] : Remote[k][id] = eager[k][id]

====
